---------------------------- MODULE Spec2Model ----------------------------
(***************************************************************************)
(* Multi-trajectory BM25 retrieval and answer consensus.                   *)
(*                                                                         *)
(*   Spec       the orchestrator multi_trajectory_retrieve: one merger     *)
(*              task per non-empty trajectory on a bounded thread pool,    *)
(*              joined in submission order (multi_BM25_retrieval.py)       *)
(*   SpecVote   the consensus vote of run_full_dev / run_simple_pipeline   *)
(*   SpecScore  the parser of the answer-scoring response                  *)
(*              (AnswerGenerator.score_candidate_answers)                  *)
(*   SpecMerge  one call of the merger _retrieve_for_queries               *)
(*   SpecRewrite  the three parsers of QuestionRewriter                    *)
(*   SpecNorm   the answer post-processing _normalize_yes_no               *)
(*   SpecRun    the loop of run_full_dev over the question set             *)
(*              (predict_full.py)                                          *)
(*   SpecSelect   the context selection of one trajectory: rerank, top-k   *)
(*   SpecContexts the merge of the trajectories' selected contexts         *)
(*   SpecLive   Spec with the fairness of the pool's threads               *)
(*                                                                         *)
(* Python strings are sequences of one-character strings, so that strip()  *)
(* and lower() are computed and not assumed.                               *)
(***************************************************************************)
EXTENDS Integers, Sequences, FiniteSets, TLC

VARIABLES
    mode,           \* which part of the program this behaviour runs
    pc,             \* position of the calling thread
    question,       \* the question string
    trajectories,   \* name -> list of query variants (lines 68-73)
    index,          \* the BM25 index: stripped query -> ranking or "raise"
    max_workers,    \* self.max_workers
    subIdx,         \* next trajectory the submit comprehension looks at
    futures,        \* future_to_name, in insertion order (names)
    task,           \* name -> "none" | "queued" | "running" | "done" | "failed"
    taskRes,        \* name -> outcome of the task's _retrieve_for_queries
    joinIdx,        \* position of the join loop in futures
    results,        \* the results dict, as its items in insertion order
    exc,            \* the exception leaving multi_trajectory_retrieve
    top_k_per_query,    \* the fan-out passed to the merger
    qlist,          \* _retrieve_for_queries: the variant list passed
    merged,         \* _retrieve_for_queries: what the call produced
    candidate_answers,  \* run_full_dev: one answer per trajectory
    answer_scores,      \* run_full_dev: the confidence vector
    final_answer,       \* run_full_dev: the vote's decision
    best_idx,           \* run_full_dev: the index the vote returned
    response,       \* score_candidate_answers: the collaborator's text
    n_answers,      \* score_candidate_answers: len(answers)
    scoreOut,       \* score_candidate_answers: what the call produced
    method,         \* QuestionRewriter: which of the three methods runs
    completion,     \* MistralCompleter.complete: the service's content
    resp,           \* QuestionRewriter: resp = self.llm.complete(prompt)
    n_max,          \* QuestionRewriter: n / max_steps / max_entities
    variants,       \* QuestionRewriter: the list the method returns
    answer,         \* _normalize_yes_no: the text it is called with
    normalized,     \* _normalize_yes_no(answer)
    renormalized,   \* _normalize_yes_no(_normalize_yes_no(answer))
    data,           \* run_full_dev: the examples of the question set
    ex_idx,         \* run_full_dev: idx, the index of the example (from 0)
    top_k_for_answer,   \* run_full_dev: its parameter
    env,            \* what the index and the remote service can do
    traj_results,   \* run_full_dev: traj_results.values(), the docs lists
    traj_pos,       \* run_full_dev: position of the loop of line 61
    trajectory_contexts,    \* run_full_dev: one context list per candidate
    predictions,    \* run_full_dev: the dict, as items in insertion order
    persisted,      \* the predictions file: <<"none">> or <<"file", dict>>
    calls,          \* the calls made for the example at hand:
                    \* [idx, stage, n] (n: size of the input)
    run_error,      \* the exception leaving run_full_dev, or "none"
    sel_ctxs,       \* context selection: retrieved_ctxs of the trajectory
    sel_scores,     \* context selection: rerank_scores, one per passage
    sel_top_k,      \* context selection: top_k_for_answer
    sel_out,        \* context selection: selected_ctxs, the list returned
    ctx_lists,      \* context merge: trajectory_contexts as it is given
    merged_contexts \* context merge: the de-duplicated list

vars == <<mode, pc, question, trajectories, index, max_workers, subIdx,
          futures, task, taskRes, joinIdx, results, exc,
          top_k_per_query, qlist, merged,
          candidate_answers, answer_scores, final_answer, best_idx,
          response, n_answers, scoreOut,
          method, completion, resp, n_max, variants,
          answer, normalized, renormalized,
          data, ex_idx, top_k_for_answer, env, traj_results, traj_pos,
          trajectory_contexts, predictions, persisted, calls, run_error,
          sel_ctxs, sel_scores, sel_top_k, sel_out, ctx_lists,
          merged_contexts>>

orchVars == <<question, trajectories, index, max_workers, subIdx,
              futures, task, taskRes, joinIdx, results, exc, top_k_per_query>>
mergeVars == <<qlist, merged>>
voteVars == <<candidate_answers, answer_scores, final_answer, best_idx>>
scoreVars == <<response, n_answers, scoreOut>>
rewriteVars == <<method, completion, resp, n_max, variants>>
\* the stages of the pipeline around retrieval, scoring and the vote
normVars == <<answer, normalized, renormalized>>
runVars == <<data, ex_idx, top_k_for_answer, env, traj_results, traj_pos,
             trajectory_contexts, predictions, persisted, calls, run_error>>
selectVars == <<sel_ctxs, sel_scores, sel_top_k, sel_out, ctx_lists,
                merged_contexts>>
pipelineVars == <<rewriteVars, normVars, runVars, selectVars>>

-----------------------------------------------------------------------------
(* Bounds                                                                  *)

\* longest variant list a rewriter call returns to the orchestrator
MaxVariants == 1
\* longest variant list the merger is called with on its own
MaxQueries == 2
\* largest pool size tried
MaxWorkers == 2
\* documents in the index
NumDocs == 2
\* largest BM25 score (scores are 1..MaxScore)
MaxScore == 2

\* top_k_per_query as run_full_dev passes it
TopKPerQuery == 8

-----------------------------------------------------------------------------
(* Strings                                                                 *)

Min(a, b) == IF a < b THEN a ELSE b
Max(a, b) == IF a > b THEN a ELSE b

\* sequences over S of length at most n
BoundedSeq(S, n) == UNION {[1..k -> S] : k \in 0..n}

\* whitespace of str.strip(): the blank and the line feed
IsSpace(c) == c \in {" ", "\n"}

RECURSIVE LStrip(_)
LStrip(s) ==
    IF s = <<>> THEN <<>>
    ELSE IF IsSpace(Head(s)) THEN LStrip(Tail(s)) ELSE s

RECURSIVE RStrip(_)
RStrip(s) ==
    IF s = <<>> THEN <<>>
    ELSE IF IsSpace(s[Len(s)]) THEN RStrip(SubSeq(s, 1, Len(s) - 1)) ELSE s

\* str.strip()
Strip(s) == RStrip(LStrip(s))


-----------------------------------------------------------------------------
(* The BM25 index, the passage store and the retriever adapter             *)

Docs == 1..NumDocs
Scores == 1..MaxScore

\* self.store["texts"]: two neighbouring chunks may hold the same text
texts == [i \in Docs |-> (i + 1) \div 2]
\* self.store["meta"]
meta == [i \in Docs |-> [title |-> i]]

\* what bm25s can return for one query: distinct documents, best score first
Rankings ==
    {h \in BoundedSeq(Docs \X Scores, NumDocs) :
        /\ \A i, j \in 1..Len(h) : i < j => h[i][1] # h[j][1]
        /\ \A i, j \in 1..Len(h) : i < j => h[i][2] >= h[j][2]}

\* the engine either raises or returns a ranking
Outcomes ==
    {[raises |-> TRUE, hits |-> <<>>]}
        \cup {[raises |-> FALSE, hits |-> h] : h \in Rankings}

\* the first k elements of a sequence (bm25s returns at most k hits)
Take(s, k) == SubSeq(s, 1, Min(k, Len(s)))

\* BM25Retriever.retrieve: one record per hit, built from the store
retrieve(idx, query, top_k) ==
    LET hits == Take(idx[query].hits, top_k)
    IN  [raises |-> idx[query].raises,
         results |-> [n \in 1..Len(hits) |->
                        [score |-> hits[n][2],
                         text |-> texts[hits[n][1]],
                         meta |-> meta[hits[n][1]]]]]

-----------------------------------------------------------------------------
(* The merger: _retrieve_for_queries                                       *)

\* position of key k in a dict kept as its items <<key, value>>, 0 if absent
RECURSIVE KeyPos(_, _, _)
KeyPos(d, k, n) ==
    IF n > Len(d) THEN 0
    ELSE IF d[n][1] = k THEN n ELSE KeyPos(d, k, n + 1)

\* lines 39-43: fold the records of one retrieval into doc_best
RECURSIVE FoldResults(_, _)
FoldResults(doc_best, rs) ==
    IF rs = <<>> THEN [status |-> "ok", doc_best |-> doc_best]
    ELSE LET r == Head(rs) IN
         IF "doc_id" \notin DOMAIN r \/ "score" \notin DOMAIN r
         THEN [status |-> "KeyError", doc_best |-> doc_best]
         ELSE LET pos == KeyPos(doc_best, r["doc_id"], 1) IN
              IF pos = 0
              THEN FoldResults(Append(doc_best, <<r["doc_id"], r>>), Tail(rs))
              ELSE IF r["score"] > doc_best[pos][2]["score"]
              THEN FoldResults([doc_best EXCEPT ![pos] = <<r["doc_id"], r>>],
                               Tail(rs))
              ELSE FoldResults(doc_best, Tail(rs))

\* lines 34-43: the loop over the variants
RECURSIVE MergeLoop(_, _, _, _)
MergeLoop(idx, queries, top_k, doc_best) ==
    IF queries = <<>> THEN [status |-> "ok", doc_best |-> doc_best]
    ELSE LET q == Strip(Head(queries)) IN
         IF q = <<>> THEN MergeLoop(idx, Tail(queries), top_k, doc_best)
         ELSE LET got == retrieve(idx, q, top_k) IN
              IF got.raises
              THEN [status |-> "RetrievalError", doc_best |-> doc_best]
              ELSE LET folded == FoldResults(doc_best, got.results) IN
                   IF folded.status # "ok" THEN folded
                   ELSE MergeLoop(idx, Tail(queries), top_k, folded.doc_best)

\* insert record r into ds (sorted by score, best first) after its equals
RECURSIVE InsertByScore(_, _)
InsertByScore(ds, r) ==
    IF ds = <<>> THEN <<r>>
    ELSE IF r["score"] > Head(ds)["score"] THEN <<r>> \o ds
    ELSE <<Head(ds)>> \o InsertByScore(Tail(ds), r)

\* sorted(values, key=score, reverse=True): stable, best score first
RECURSIVE SortByScore(_)
SortByScore(ds) ==
    IF ds = <<>> THEN <<>>
    ELSE InsertByScore(SortByScore(SubSeq(ds, 1, Len(ds) - 1)), ds[Len(ds)])

\* _retrieve_for_queries: the sorted docs, or the exception it raises
RetrieveForQueries(idx, queries, top_k) ==
    LET m == MergeLoop(idx, queries, top_k, <<>>) IN
    IF m.status # "ok" THEN [status |-> m.status, docs |-> <<>>]
    ELSE [status |-> "ok",
          docs |-> SortByScore([n \in 1..Len(m.doc_best) |-> m.doc_best[n][2]])]

\* variants the merger is called with: blank, plain, with a trailing space
MergeQueries == {<<" ">>, <<"a">>, <<"b", " ">>}
MergeNonBlank == {Strip(q) : q \in MergeQueries} \ {<<>>}
\* fan-outs tried: one hit per query, and the pipeline's
TopKs == {1, TopKPerQuery}

InitMerge ==
    /\ mode = "merge"
    /\ pc = "merge"
    /\ qlist \in BoundedSeq(MergeQueries, MaxQueries)
    /\ index \in [MergeNonBlank -> Outcomes]
    /\ top_k_per_query \in TopKs
    /\ merged = [status |-> "ok", docs |-> <<>>]

-----------------------------------------------------------------------------
(* The orchestrator: multi_trajectory_retrieve                             *)

\* mutant of TrajNames: the dict is built with the entity trajectory first
TrajNamesEntityFirst == <<"entity", "original", "rewrite", "decomp">>

\* the keys of the trajectories dict, in insertion order (lines 68-73)
TrajNames == <<"original", "rewrite", "decomp", "entity">>
TrajSet == {TrajNames[i] : i \in 1..Len(TrajNames)}

\* questions of the data set: blank, plain, and with a leading space
Questions == {<<" ">>, <<" ", "b">>}
\* strings a rewriter call can return as one variant (already stripped;
\* simple_rewrites and entity_focused can return the empty string)
Variants == {<<>>, <<"a">>}
VariantLists == BoundedSeq(Variants, MaxVariants)
\* the non-blank queries the index is asked
NonBlank == {Strip(q) : q \in Questions \cup Variants} \ {<<>>}

\* the indexes the orchestrator is run against: for each query the engine
\* raises, finds nothing, or finds the first document
OrchOutcomes ==
    {[raises |-> TRUE, hits |-> <<>>],
     [raises |-> FALSE, hits |-> <<>>],
     [raises |-> FALSE, hits |-> <<<<1, MaxScore>>>>]}

NoResult == [status |-> "ok", docs |-> <<>>]

\* mutant of FutureFinished: neither result() nor the shutdown waits
FutureFinishedNoWait(t) == TRUE

\* Future.result() returns, and shutdown(wait=True) passes this task
FutureFinished(t) == task[t] \in {"none", "done", "failed"}

\* mutant of Running: a queued task holds a worker before it is started
RunningCountsQueued == {t \in TrajSet : task[t] \in {"queued", "running"}}

\* the tasks a worker thread is running
Running == {t \in TrajSet : task[t] = "running"}

\* position of the first queued task in submission order, 0 if none
RECURSIVE FirstQueued(_)
FirstQueued(n) ==
    IF n > Len(futures) THEN 0
    ELSE IF task[futures[n]] = "queued" THEN n ELSE FirstQueued(n + 1)

InitOrch ==
    /\ mode = "retrieve"
    /\ pc = "submit"
    /\ question \in Questions
    /\ \E r, d, e \in VariantLists :
           trajectories = [t \in TrajSet |->
               CASE t = "original" -> <<question>>
                 [] t = "rewrite" -> r
                 [] t = "decomp" -> d
                 [] OTHER -> e]
    /\ index \in [NonBlank -> OrchOutcomes]
    /\ top_k_per_query = TopKPerQuery
    /\ max_workers \in 1..MaxWorkers
    /\ subIdx = 1
    /\ futures = <<>>
    /\ task = [t \in TrajSet |-> "none"]
    /\ taskRes = [t \in TrajSet |-> NoResult]
    /\ joinIdx = 1
    /\ results = <<>>
    /\ exc = "none"

\* lines 79-83: one item of the comprehension: submit unless qlist is empty
Submit ==
    /\ mode = "retrieve" /\ pc = "submit"
    /\ subIdx <= Len(TrajNames)
    /\ LET name == TrajNames[subIdx] IN
         IF trajectories[name] # <<>>
         THEN /\ futures' = Append(futures, name)
              /\ task' = [task EXCEPT ![name] = "queued"]
         ELSE UNCHANGED <<futures, task>>
    /\ subIdx' = subIdx + 1
    /\ pc' = IF subIdx = Len(TrajNames) THEN "join" ELSE "submit"
    /\ UNCHANGED <<mode, question, trajectories, index, max_workers, taskRes,
                   joinIdx, results, exc, top_k_per_query>>
    /\ UNCHANGED voteVars /\ UNCHANGED scoreVars /\ UNCHANGED mergeVars
    /\ UNCHANGED pipelineVars

\* a free worker thread takes the oldest queued task
TaskStart(t) ==
    /\ mode = "retrieve"
    /\ task[t] = "queued"
    /\ Cardinality(Running) < max_workers
    /\ FirstQueued(1) # 0 /\ futures[FirstQueued(1)] = t
    /\ task' = [task EXCEPT ![t] = "running"]
    /\ UNCHANGED <<mode, pc, question, trajectories, index, max_workers,
                   subIdx, futures, taskRes, joinIdx, results, exc,
                   top_k_per_query>>
    /\ UNCHANGED voteVars /\ UNCHANGED scoreVars /\ UNCHANGED mergeVars
    /\ UNCHANGED pipelineVars

\* the task runs _retrieve_for_queries(qlist, top_k_per_query) to its end
TaskFinish(t) ==
    /\ mode = "retrieve"
    /\ task[t] = "running"
    /\ LET out == RetrieveForQueries(index, trajectories[t],
                                      top_k_per_query) IN
         /\ taskRes' = [taskRes EXCEPT ![t] = out]
         /\ task' = [task EXCEPT ![t] =
                        IF out.status = "ok" THEN "done" ELSE "failed"]
    /\ UNCHANGED <<mode, pc, question, trajectories, index, max_workers,
                   subIdx, futures, joinIdx, results, exc, top_k_per_query>>
    /\ UNCHANGED voteVars /\ UNCHANGED scoreVars /\ UNCHANGED mergeVars
    /\ UNCHANGED pipelineVars

\* lines 85-87: docs = fut.result(); results[name] = {...}
JoinResult ==
    /\ mode = "retrieve" /\ pc = "join"
    /\ joinIdx <= Len(futures)
    /\ LET name == futures[joinIdx] IN
         /\ FutureFinished(name)
         /\ IF taskRes[name].status = "ok"
            THEN /\ results' = Append(results,
                       <<name, [queries |-> trajectories[name],
                                docs |-> taskRes[name].docs]>>)
                 /\ joinIdx' = joinIdx + 1
                 /\ UNCHANGED <<pc, exc>>
            ELSE /\ exc' = taskRes[name].status
                 /\ pc' = "exit"
                 /\ UNCHANGED <<results, joinIdx>>
    /\ UNCHANGED <<mode, question, trajectories, index, max_workers, subIdx,
                   futures, task, taskRes, top_k_per_query>>
    /\ UNCHANGED voteVars /\ UNCHANGED scoreVars /\ UNCHANGED mergeVars
    /\ UNCHANGED pipelineVars

\* line 85: the loop has no future left
JoinEnd ==
    /\ mode = "retrieve" /\ pc = "join"
    /\ joinIdx > Len(futures)
    /\ pc' = "exit"
    /\ UNCHANGED orchVars /\ UNCHANGED mode
    /\ UNCHANGED voteVars /\ UNCHANGED scoreVars /\ UNCHANGED mergeVars
    /\ UNCHANGED pipelineVars

\* line 78: leaving the with block is shutdown(wait=True); then line 89
\* returns results, or the exception of fut.result() goes on to the caller
ExitPool ==
    /\ mode = "retrieve" /\ pc = "exit"
    /\ \A t \in TrajSet : FutureFinished(t)
    /\ pc' = IF exc = "none" THEN "returned" ELSE "raised"
    /\ UNCHANGED orchVars /\ UNCHANGED mode
    /\ UNCHANGED voteVars /\ UNCHANGED scoreVars /\ UNCHANGED mergeVars
    /\ UNCHANGED pipelineVars

-----------------------------------------------------------------------------
(* The consensus vote: run_full_dev lines 100-141 (predict2.py 94-141)     *)

\* number of confidence steps: the confidence k stands for k / ConfLevels
ConfLevels == 2
\* longest candidate list (the program has at most one per trajectory)
MaxCands == 3

UpperCase ==
    <<"A", "B", "C", "D", "E", "F", "G", "H", "I", "J", "K", "L", "M", "N",
      "O", "P", "Q", "R", "S", "T", "U", "V", "W", "X", "Y", "Z">>
LowerCase ==
    <<"a", "b", "c", "d", "e", "f", "g", "h", "i", "j", "k", "l", "m", "n",
      "o", "p", "q", "r", "s", "t", "u", "v", "w", "x", "y", "z">>

\* str.lower() on one character: the table, and its use
LowerTable ==
    [c \in {UpperCase[i] : i \in 1..Len(UpperCase)} |->
        LowerCase[CHOOSE i \in 1..Len(UpperCase) : UpperCase[i] = c]]

LowerChar(c) == IF c \in DOMAIN LowerTable THEN LowerTable[c] ELSE c

\* str.lower()
Lower(s) == [i \in 1..Len(s) |-> LowerChar(s[i])]

\* "I cannot answer from the given context."
Sentinel ==
    <<"I", " ", "c", "a", "n", "n", "o", "t", " ", "a", "n", "s", "w", "e",
      "r", " ", "f", "r", "o", "m", " ", "t", "h", "e", " ", "g", "i", "v",
      "e", "n", " ", "c", "o", "n", "t", "e", "x", "t", ".">>
\* the literal the vote compares with
FallbackKey ==
    <<"i", " ", "c", "a", "n", "n", "o", "t", " ", "a", "n", "s", "w", "e",
      "r", " ", "f", "r", "o", "m", " ", "t", "h", "e", " ", "g", "i", "v",
      "e", "n", " ", "c", "o", "n", "t", "e", "x", "t", ".">>

\* answers generate_answer can return (stripped; "" when the model gave none)
Answers ==
    {<<>>, Sentinel, <<"P", "a">>, <<"p", "a">>, <<"R">>}

Confs == 0..ConfLevels

\* mutant of norm_ans: the lowercasing is forgotten
norm_ans_no_lower(ans) == Strip(ans)

\* norm_ans
norm_ans(ans) == Lower(Strip(ans))

\* is_non_empty
is_non_empty(ans) == norm_ans(ans) # <<>> /\ norm_ans(ans) # FallbackKey

\* tuple comparison of Python: a > b for two triples
TupleGreater(a, b) ==
    \/ a[1] > b[1]
    \/ a[1] = b[1] /\ a[2] > b[2]
    \/ a[1] = b[1] /\ a[2] = b[2] /\ a[3] > b[3]

\* answer_scores[i] if i < len(answer_scores) else 0.0   (i counts from 1)
ScoreOf(scores, i) == IF i <= Len(scores) THEN scores[i] ELSE 0

\* lines 118-121: groups, a dict key -> indices, as items in insertion order
RECURSIVE BuildGroups(_, _, _)
BuildGroups(cands, indices, groups) ==
    IF indices = <<>> THEN groups
    ELSE LET i == Head(indices)
             key == norm_ans(cands[i])
             pos == KeyPos(groups, key, 1)
         IN  IF pos = 0
             THEN BuildGroups(cands, Tail(indices),
                              Append(groups, <<key, <<i>>>>))
             ELSE BuildGroups(cands, Tail(indices),
                      [groups EXCEPT ![pos] = <<key, Append(groups[pos][2], i)>>])

\* max(...) over a non-empty list of numbers
RECURSIVE MaxOf(_)
MaxOf(xs) ==
    IF Len(xs) = 1 THEN xs[1] ELSE Max(Head(xs), MaxOf(Tail(xs)))

\* mutant of group_key: the best confidence is compared before the count
group_key_conf_first(scores, item) ==
    LET key == item[1]
        idxs == item[2]
        count == Len(idxs)
        conf == IF scores # <<>>
                THEN MaxOf([n \in 1..Len(idxs) |-> ScoreOf(scores, idxs[n])])
                ELSE 0
        fallback_penalty == IF key # <<>> /\ key # FallbackKey THEN 0 ELSE -1
    IN  <<fallback_penalty, conf, count>>

\* lines 123-128: group_key(item)
group_key(scores, item) ==
    LET key == item[1]
        idxs == item[2]
        count == Len(idxs)
        conf == IF scores # <<>>
                THEN MaxOf([n \in 1..Len(idxs) |-> ScoreOf(scores, idxs[n])])
                ELSE 0
        fallback_penalty == IF key # <<>> /\ key # FallbackKey THEN 0 ELSE -1
    IN  <<fallback_penalty, count, conf>>

\* mutant of MaxGroup: of the items with the greatest key the last one wins
RECURSIVE MaxGroupLast(_, _, _, _)
MaxGroupLast(scores, groups, n, best) ==
    IF n > Len(groups) THEN best
    ELSE IF ~TupleGreater(group_key(scores, groups[best]),
                          group_key(scores, groups[n]))
    THEN MaxGroupLast(scores, groups, n + 1, n)
    ELSE MaxGroupLast(scores, groups, n + 1, best)

\* max(groups.items(), key=group_key): the first item no later item beats
RECURSIVE MaxGroup(_, _, _, _)
MaxGroup(scores, groups, n, best) ==
    IF n > Len(groups) THEN best
    ELSE IF TupleGreater(group_key(scores, groups[n]),
                         group_key(scores, groups[best]))
    THEN MaxGroup(scores, groups, n + 1, n)
    ELSE MaxGroup(scores, groups, n + 1, best)

\* mutant of MaxMember: of equal confidences the last index wins
RECURSIVE MaxMemberLast(_, _, _, _)
MaxMemberLast(scores, idxs, n, best) ==
    IF n > Len(idxs) THEN idxs[best]
    ELSE IF ScoreOf(scores, idxs[n]) >= ScoreOf(scores, idxs[best])
    THEN MaxMemberLast(scores, idxs, n + 1, n)
    ELSE MaxMemberLast(scores, idxs, n + 1, best)

\* max(best_group_idxs, key=score): the first index no later index beats
RECURSIVE MaxMember(_, _, _, _)
MaxMember(scores, idxs, n, best) ==
    IF n > Len(idxs) THEN idxs[best]
    ELSE IF ScoreOf(scores, idxs[n]) > ScoreOf(scores, idxs[best])
    THEN MaxMember(scores, idxs, n + 1, n)
    ELSE MaxMember(scores, idxs, n + 1, best)

\* mutant of best_by_frequency: the position of the winning group among
\* the groups is returned in place of a member of the group
best_by_frequency_group_position(cands, scores, indices) ==
    IF indices = <<>> THEN 0
    ELSE MaxGroup(scores, BuildGroups(cands, indices, <<>>), 2, 1)

\* lines 115-133: best_by_frequency; indices count from 1, so 0 is "-1"
best_by_frequency(cands, scores, indices) ==
    IF indices = <<>> THEN 0
    ELSE LET groups == BuildGroups(cands, indices, <<>>)
             best_group_idxs == groups[MaxGroup(scores, groups, 2, 1)][2]
         IN  IF scores # <<>>
             THEN MaxMember(scores, best_group_idxs, 2, 1)
             ELSE best_group_idxs[1]

\* line 106
candidates_idx(cands) == [i \in 1..Len(cands) |-> i]

\* line 107: the indices of idxs whose candidate is_non_empty, in order
RECURSIVE NonEmptyOf(_, _)
NonEmptyOf(cands, idxs) ==
    IF idxs = <<>> THEN <<>>
    ELSE IF is_non_empty(cands[Head(idxs)])
    THEN <<Head(idxs)>> \o NonEmptyOf(cands, Tail(idxs))
    ELSE NonEmptyOf(cands, Tail(idxs))

non_empty_idxs(cands) == NonEmptyOf(cands, candidates_idx(cands))

\* mutant of VotePool: no falling back to the full set
VotePoolNonEmptyOnly(cands) == non_empty_idxs(cands)

\* line 135
VotePool(cands) ==
    IF non_empty_idxs(cands) # <<>> THEN non_empty_idxs(cands)
    ELSE candidates_idx(cands)

InitVote ==
    /\ mode = "vote"
    /\ pc = "vote"
    /\ candidate_answers \in BoundedSeq(Answers, MaxCands)
    /\ answer_scores \in [1..Len(candidate_answers) -> Confs]
    /\ final_answer = <<>>
    /\ best_idx = 0

\* lines 135-141: pool, best_idx, final_answer
Vote ==
    /\ mode = "vote" /\ pc = "vote"
    /\ LET b == best_by_frequency(candidate_answers, answer_scores,
                                  VotePool(candidate_answers))
       IN  /\ best_idx' = b
           /\ final_answer' =
                 IF b = 0
                 THEN IF candidate_answers # <<>>
                      THEN candidate_answers[1] ELSE <<>>
                 ELSE candidate_answers[b]
    /\ pc' = "voted"
    /\ UNCHANGED <<mode, candidate_answers, answer_scores>>
    /\ UNCHANGED orchVars /\ UNCHANGED scoreVars /\ UNCHANGED mergeVars
    /\ UNCHANGED pipelineVars

-----------------------------------------------------------------------------
(* The answer scorer's parser: score_candidate_answers lines 186-215       *)

\* longest response, in tokens
MaxTokens == 4
\* most candidate answers scored in one call
MaxAnswers == 2

\* The response text is a sequence of tokens: "[", "]", ",", a word of
\* prose, and three JSON atoms: a non-zero number, null (any falsy scalar)
\* and an object {"index": i, "confidence": c}.
Tok(t, i, c) == [t |-> t, index |-> i, conf |-> c]
ObjTokens ==
    {Tok("obj", i, c) : i \in 0..MaxAnswers, c \in {1, ConfLevels + 1}}
Tokens ==
    {Tok("lb", 0, 0), Tok("rb", 0, 0), Tok("comma", 0, 0), Tok("word", 0, 0),
     Tok("num", 0, 1), Tok("null", 0, 0)} \cup ObjTokens

\* a parsed JSON value
Val(kind, i, c, items) ==
    [kind |-> kind, index |-> i, conf |-> c, items |-> items]
NoParse == [ok |-> FALSE, val |-> Val("null", 0, 0, <<>>), next |-> 0]

\* json.loads on tokens: value := atom | "[" "]" | "[" value {"," value} "]"
RECURSIVE ParseValue(_, _), ParseItems(_, _, _)
ParseValue(ts, p) ==
    IF p > Len(ts) THEN NoParse
    ELSE IF ts[p].t \in {"num", "null", "obj"}
    THEN [ok |-> TRUE, val |-> Val(ts[p].t, ts[p].index, ts[p].conf, <<>>),
          next |-> p + 1]
    ELSE IF ts[p].t = "lb"
    THEN IF p + 1 <= Len(ts) /\ ts[p + 1].t = "rb"
         THEN [ok |-> TRUE, val |-> Val("array", 0, 0, <<>>), next |-> p + 2]
         ELSE ParseItems(ts, p + 1, <<>>)
    ELSE NoParse

ParseItems(ts, p, acc) ==
    LET v == ParseValue(ts, p) IN
    IF ~v.ok \/ v.next > Len(ts) THEN NoParse
    ELSE IF ts[v.next].t = "rb"
    THEN [ok |-> TRUE, val |-> Val("array", 0, 0, Append(acc, v.val)),
          next |-> v.next + 1]
    ELSE IF ts[v.next].t = "comma"
    THEN ParseItems(ts, v.next + 1, Append(acc, v.val))
    ELSE NoParse

\* json.loads(text): the whole text is one value, or it raises
json_loads(ts) ==
    LET r == ParseValue(ts, 1) IN
    IF r.ok /\ r.next = Len(ts) + 1 THEN r ELSE NoParse

\* content.find("["): the first position, 0 if there is none
RECURSIVE Find(_, _, _)
Find(ts, t, p) ==
    IF p > Len(ts) THEN 0
    ELSE IF ts[p].t = t THEN p ELSE Find(ts, t, p + 1)

\* content.rfind("]"): the last position, 0 if there is none
RECURSIVE RFind(_, _, _)
RFind(ts, t, p) ==
    IF p < 1 THEN 0
    ELSE IF ts[p].t = t THEN p ELSE RFind(ts, t, p - 1)

\* lines 191-201: parsed
ParseResponse(content) ==
    IF json_loads(content).ok THEN json_loads(content)
    ELSE LET start == Find(content, "lb", 1)
             end == RFind(content, "rb", Len(content))
         IN  IF start # 0 /\ end # 0 /\ end > start
             THEN json_loads(SubSeq(content, start, end))
             ELSE NoParse

\* `not parsed`: None, a falsy scalar or an empty array
Falsy(r) ==
    \/ ~r.ok
    \/ r.val.kind = "null"
    \/ r.val.kind = "array" /\ r.val.items = <<>>

\* max(0.0, min(1.0, conf))
Clamp(c) == Max(0, Min(ConfLevels, c))

\* lines 206-213: the loop over the entries of a parsed array
RECURSIVE ApplyEntries(_, _, _)
ApplyEntries(entries, n, scores) ==
    IF entries = <<>> THEN scores
    ELSE LET entry == Head(entries) IN
         IF entry.kind = "obj" /\ 0 <= entry.index /\ entry.index < n
         THEN ApplyEntries(Tail(entries), n,
                  [scores EXCEPT ![entry.index + 1] = Clamp(entry.conf)])
         ELSE ApplyEntries(Tail(entries), n, scores)

\* lines 189-215 for len(answers) = n > 0 and the response text content
score_candidate_answers(content, n) ==
    LET scores == [i \in 1..n |-> 0]
        parsed == ParseResponse(content)
    IN  IF Falsy(parsed) THEN [raised |-> FALSE, scores |-> scores]
        ELSE IF parsed.val.kind = "num"
        THEN [raised |-> TRUE, scores |-> <<>>]
        ELSE IF parsed.val.kind = "obj"
        THEN [raised |-> FALSE, scores |-> scores]
        ELSE [raised |-> FALSE,
              scores |-> ApplyEntries(parsed.val.items, n, scores)]

InitScore ==
    /\ mode = "score"
    /\ pc = "score"
    /\ response \in BoundedSeq(Tokens, MaxTokens)
    /\ n_answers \in 1..MaxAnswers
    /\ scoreOut = [raised |-> FALSE, scores |-> <<>>]

\* the call of line 94 of run_full_dev, from the response on
Score ==
    /\ mode = "score" /\ pc = "score"
    /\ scoreOut' = score_candidate_answers(response, n_answers)
    /\ pc' = "scored"
    /\ UNCHANGED <<mode, response, n_answers>>
    /\ UNCHANGED orchVars /\ UNCHANGED voteVars /\ UNCHANGED mergeVars
    /\ UNCHANGED pipelineVars

\* one call of _retrieve_for_queries(qlist, top_k_per_query)
Merge ==
    /\ mode = "merge" /\ pc = "merge"
    /\ merged' = RetrieveForQueries(index, qlist, top_k_per_query)
    /\ pc' = "merged"
    /\ UNCHANGED <<mode, qlist>>
    /\ UNCHANGED orchVars /\ UNCHANGED voteVars /\ UNCHANGED scoreVars
    /\ UNCHANGED pipelineVars

-----------------------------------------------------------------------------
(* The query-variant generator: QuestionRewriter                           *)

\* longest completion text, in characters
MaxText == 5
\* largest cap n on the number of variants
MaxN == 2

\* the characters of a completion: a dash, a blank, a line feed, a colon
\* and a letter
TextChars == {"-", " ", "\n", ":", "a"}
Texts == BoundedSeq(TextChars, MaxText)

\* the three methods that parse a completion
RewriterMethods == {"rewrite", "decomp", "entity"}

\* str.strip(chars) from the left and from the right
RECURSIVE LStripChars(_, _)
LStripChars(s, cs) ==
    IF s = <<>> THEN <<>>
    ELSE IF Head(s) \in cs THEN LStripChars(Tail(s), cs) ELSE s

RECURSIVE RStripChars(_, _)
RStripChars(s, cs) ==
    IF s = <<>> THEN <<>>
    ELSE IF s[Len(s)] \in cs THEN RStripChars(SubSeq(s, 1, Len(s) - 1), cs)
    ELSE s

StripChars(s, cs) == RStripChars(LStripChars(s, cs), cs)

\* str.splitlines(): cur is the line being read, acc the lines read
RECURSIVE SplitLines(_, _, _)
SplitLines(s, cur, acc) ==
    IF s = <<>> THEN (IF cur = <<>> THEN acc ELSE Append(acc, cur))
    ELSE IF Head(s) = "\n" THEN SplitLines(Tail(s), <<>>, Append(acc, cur))
    ELSE SplitLines(Tail(s), Append(cur, Head(s)), acc)

\* position of the first c in s, 0 if there is none
RECURSIVE CharPos(_, _, _)
CharPos(s, c, p) ==
    IF p > Len(s) THEN 0
    ELSE IF s[p] = c THEN p ELSE CharPos(s, c, p + 1)

\* [ln.strip("- ").strip() for ln in lines if ln.strip()]
RECURSIVE RewriteLines(_)
RewriteLines(lines) ==
    IF lines = <<>> THEN <<>>
    ELSE IF Strip(Head(lines)) # <<>>
    THEN <<Strip(StripChars(Head(lines), {"-", " "}))>>
             \o RewriteLines(Tail(lines))
    ELSE RewriteLines(Tail(lines))

\* simple_rewrites, from the completion on: lines 36-37
simple_rewrites(text, n) == Take(RewriteLines(SplitLines(text, <<>>, <<>>)), n)

\* semantic_decomposition, from the completion on: lines 87-88
semantic_decomposition(text, max_steps) ==
    Take(RewriteLines(SplitLines(text, <<>>, <<>>)), max_steps)

\* lines 124-129: the loop of entity_focused
RECURSIVE EntityLines(_)
EntityLines(lines) ==
    IF lines = <<>> THEN <<>>
    ELSE LET ln == Strip(Head(lines))
             at == CharPos(ln, ":", 1)
         IN  IF at = 0 THEN EntityLines(Tail(lines))
             ELSE <<Strip(SubSeq(ln, at + 1, Len(ln)))>>
                      \o EntityLines(Tail(lines))

\* entity_focused, from the completion on: lines 123-130
entity_focused(text, max_entities) ==
    Take(EntityLines(SplitLines(text, <<>>, <<>>)), max_entities)

InitRewrite ==
    /\ mode = "rewriter"
    /\ pc = "complete"
    /\ method \in RewriterMethods
    /\ completion \in Texts
    /\ n_max \in 1..MaxN
    /\ resp = <<>>
    /\ variants = <<>>

\* MistralCompleter.complete returns content.strip()
Complete ==
    /\ mode = "rewriter" /\ pc = "complete"
    /\ resp' = Strip(completion)
    /\ pc' = "parse"
    /\ UNCHANGED <<mode, method, completion, n_max, variants>>
    /\ UNCHANGED orchVars /\ UNCHANGED voteVars /\ UNCHANGED scoreVars
    /\ UNCHANGED selectVars /\ UNCHANGED mergeVars
    /\ UNCHANGED normVars /\ UNCHANGED runVars

\* the method parses resp into its list of variants
ParseVariants ==
    /\ mode = "rewriter" /\ pc = "parse"
    /\ variants' =
          CASE method = "rewrite" -> simple_rewrites(resp, n_max)
            [] method = "decomp" -> semantic_decomposition(resp, n_max)
            [] OTHER -> entity_focused(resp, n_max)
    /\ pc' = "parsed"
    /\ UNCHANGED <<mode, method, completion, resp, n_max>>
    /\ UNCHANGED orchVars /\ UNCHANGED voteVars /\ UNCHANGED scoreVars
    /\ UNCHANGED selectVars /\ UNCHANGED mergeVars
    /\ UNCHANGED normVars /\ UNCHANGED runVars

IdleRewrite ==
    /\ method = "rewrite"
    /\ completion = <<>>
    /\ resp = <<>>
    /\ n_max = 1
    /\ variants = <<>>

-----------------------------------------------------------------------------
(* The answer post-processing: AnswerGenerator._normalize_yes_no           *)

\* longest answer text tried, in characters
MaxAnswerLen == 4

\* the characters of an answer: a blank and the letters of Yes, yes, No
AnswerChars == {" ", "Y", "y", "e", "s", "N", "o"}
\* the texts the post-processing is called with
AnswerTexts ==
    BoundedSeq(AnswerChars, MaxAnswerLen) \cup {Sentinel, <<" ">> \o Sentinel}

YesText == <<"y", "e", "s">>
NoText == <<"n", "o">>

\* str.startswith(prefix)
StartsWith(s, prefix) ==
    Len(s) >= Len(prefix) /\ SubSeq(s, 1, Len(prefix)) = prefix

\* mutant of normalize_yes_no: the prefix is looked for without lowercasing
normalize_yes_no_cased(a) ==
    LET ans == Strip(a)
    IN  IF StartsWith(ans, YesText) THEN YesText
        ELSE IF StartsWith(ans, NoText) THEN NoText
        ELSE Strip(a)

\* lines 61-68: _normalize_yes_no
normalize_yes_no(a) ==
    LET ans == Lower(Strip(a))
    IN  IF StartsWith(ans, YesText) THEN YesText
        ELSE IF StartsWith(ans, NoText) THEN NoText
        ELSE Strip(a)

InitNorm ==
    /\ mode = "normalize"
    /\ pc = "normalize"
    /\ answer \in AnswerTexts
    /\ normalized = <<>>
    /\ renormalized = <<>>

\* line 110: answer = self._normalize_yes_no(answer)
Normalize ==
    /\ mode = "normalize" /\ pc = "normalize"
    /\ normalized' = normalize_yes_no(answer)
    /\ pc' = "normalized"
    /\ UNCHANGED <<mode, answer, renormalized>>
    /\ UNCHANGED orchVars /\ UNCHANGED voteVars /\ UNCHANGED scoreVars
    /\ UNCHANGED selectVars /\ UNCHANGED mergeVars
    /\ UNCHANGED rewriteVars /\ UNCHANGED runVars

\* the post-processing applied to its own result
NormalizeAgain ==
    /\ mode = "normalize" /\ pc = "normalized"
    /\ renormalized' = normalize_yes_no(normalized)
    /\ pc' = "renormalized"
    /\ UNCHANGED <<mode, answer, normalized>>
    /\ UNCHANGED orchVars /\ UNCHANGED voteVars /\ UNCHANGED scoreVars
    /\ UNCHANGED selectVars /\ UNCHANGED mergeVars
    /\ UNCHANGED rewriteVars /\ UNCHANGED runVars

IdleNorm ==
    /\ answer = <<>>
    /\ normalized = <<>>
    /\ renormalized = <<>>

-----------------------------------------------------------------------------
(* The run over the question set: run_full_dev                             *)

\* longest question set run against an environment that can do anything
MaxData == 1
\* longest question set at all (run against an index that finds nothing)
MaxLongData == 11
\* most trajectories in a map multi_trajectory_retrieve returns
MaxRunTraj == 2
\* most passages in a trajectory's docs list
MaxCtx == 1

\* line 43: the loop leaves at this index
ExampleLimit == 10
\* line 13: the default of top_k_for_answer
TopKForAnswer == 10

\* the values of top_k_for_answer the run is tried with
TopKsForAnswer == {0, 1, TopKForAnswer}

\* an example of the data set; 0 stands for a missing (or empty) key
Example(u, i) == [uid |-> u, id |-> i]

\* line 46: sample.get("_id") or sample.get("id"); 0 stands for None
example_id(sample) == IF sample.uid # 0 THEN sample.uid ELSE sample.id

\* the examples tried at position p: no id, _id only, id only, and both
ExamplesAt(p) ==
    {Example(0, 0), Example(p, 0), Example(0, p), Example(p, p + MaxLongData)}
\* the examples of a long set at position p: no id, or _id
LongExamplesAt(p) == {Example(0, 0), Example(p, 0)}

\* the data sets of n examples, of the one and of the other kind
RECURSIVE DataOfLen(_)
DataOfLen(n) ==
    IF n = 0 THEN {<<>>}
    ELSE {Append(d, e) : d \in DataOfLen(n - 1), e \in ExamplesAt(n)}

RECURSIVE LongDataOfLen(_)
LongDataOfLen(n) ==
    IF n = 0 THEN {<<>>}
    ELSE {Append(d, e) : d \in LongDataOfLen(n - 1), e \in LongExamplesAt(n)}

ShortData == UNION {DataOfLen(n) : n \in 0..MaxData}
LongData == UNION {LongDataOfLen(n) : n \in (MaxData + 1)..MaxLongData}

\* a record of a docs list, as BM25Retriever.retrieve builds it
DocRecord(t) == [score |-> MaxScore, text |-> t, meta |-> [title |-> t]]
\* the docs lists of a trajectory: the first k passages, k = 0..MaxCtx
DocLists == {[n \in 1..k |-> DocRecord(n)] : k \in 0..MaxCtx}
\* traj_results.values(): the original trajectory is always there
TrajValues == BoundedSeq(DocLists, MaxRunTraj) \ {<<>>}

\* multi_trajectory_retrieve raises or returns a map
RetrievalOutcomes ==
    {[raises |-> TRUE, values |-> <<>>]}
        \cup {[raises |-> FALSE, values |-> v] : v \in TrajValues}

\* a call of the remote service fails or returns a content
Down == [up |-> FALSE, content |-> <<>>]
Up(c) == [up |-> TRUE, content |-> c]

\* contents the reranker's and the scorer's calls get: no JSON at all,
\* and an array scoring entry i
ScoreContents(i) ==
    {<<>>,
     <<Tok("lb", 0, 0), Tok("obj", i, ConfLevels + 1), Tok("rb", 0, 0)>>}
\* contents the generator's call gets: nothing, and an answer to trim
AnswerContents == {<<>>, <<" ", "R">>}

\* an environment in which the index and the service can do anything
AnyEnv ==
    [retrieval |-> RetrievalOutcomes,
     rerank |-> {Down} \cup {Up(c) : c \in ScoreContents(1)},
     generate |-> {Down} \cup {Up(c) : c \in AnswerContents},
     score |-> {Down} \cup {Up(c) : c \in ScoreContents(0)}]
\* an environment whose index finds nothing for any query
QuietEnv ==
    [retrieval |-> {[raises |-> FALSE, values |-> <<<<>>>>]},
     rerank |-> {Up(<<>>)},
     generate |-> {Up(<<>>)},
     score |-> {Up(<<>>)}]

\* ContextReranker._extract_json_block
extract_json_block(text) ==
    IF json_loads(text).ok THEN json_loads(text)
    ELSE LET start == Find(text, "lb", 1)
             end == RFind(text, "rb", Len(text))
         IN  IF start # 0 /\ end # 0 /\ end > start
             THEN json_loads(SubSeq(text, start, end))
             ELSE NoParse

\* ContextReranker.score for n > 0 contexts, from the content on
reranker_score(content, n) ==
    LET block == extract_json_block(content)
        scores == [i \in 1..n |-> 0]
    IN  IF Falsy(block) THEN [raised |-> FALSE, scores |-> scores]
        ELSE IF block.val.kind = "num"
        THEN [raised |-> TRUE, scores |-> <<>>]
        ELSE IF block.val.kind = "obj"
        THEN [raised |-> FALSE, scores |-> scores]
        ELSE [raised |-> FALSE,
              scores |-> ApplyEntries(block.val.items, n, scores)]

\* mutant of InsertByRerank: the lowest score comes first
RECURSIVE InsertByRerankAscending(_, _, _)
InsertByRerankAscending(order, i, scores) ==
    IF order = <<>> THEN <<i>>
    ELSE IF scores[i] < scores[Head(order)] THEN <<i>> \o order
    ELSE <<Head(order)>> \o InsertByRerankAscending(Tail(order), i, scores)

\* insert index i into order (best score first) after its equals
RECURSIVE InsertByRerank(_, _, _)
InsertByRerank(order, i, scores) ==
    IF order = <<>> THEN <<i>>
    ELSE IF scores[i] > scores[Head(order)] THEN <<i>> \o order
    ELSE <<Head(order)>> \o InsertByRerank(Tail(order), i, scores)

\* line 71: sorted(range(n), key=lambda i: rerank_scores[i], reverse=True)
RECURSIVE reranked_local(_, _)
reranked_local(scores, n) ==
    IF n = 0 THEN <<>>
    ELSE InsertByRerank(reranked_local(scores, n - 1), n, scores)

\* s[:k] of Python, k of either sign
Slice(s, k) ==
    IF k >= 0 THEN Take(s, k) ELSE SubSeq(s, 1, Max(0, Len(s) + k))

\* lines 77-78: k = min(top_k_for_answer, len(ranked)); ranked[:k]
selected_ctxs(ranked, top_k) == Slice(ranked, Min(top_k, Len(ranked)))

\* generate_answer, from the content on: strip, then _normalize_yes_no
generate_answer(content) == normalize_yes_no(Strip(content))

\* mutant of ScorerCalled: the service is asked even for no answers
ScorerCalledAlways(answers) == TRUE

\* lines 127-128: score_candidate_answers asks the service unless
\* `not answers`
ScorerCalled(answers) == answers # <<>>

\* dict[k] = v on a dict kept as its items
PutItem(d, k, v) ==
    IF KeyPos(d, k, 1) = 0 THEN Append(d, <<k, v>>)
    ELSE [d EXCEPT ![KeyPos(d, k, 1)] = <<k, v>>]

Call(i, stage, n) == [idx |-> i, stage |-> stage, n |-> n]

NotPersisted == <<"none">>

InitRunCommon ==
    /\ mode = "run"
    /\ pc = "loop"
    /\ ex_idx = 0
    /\ traj_results = <<>>
    /\ traj_pos = 1
    /\ trajectory_contexts = <<>>
    /\ predictions = <<>>
    /\ persisted = NotPersisted
    /\ calls = {}
    /\ run_error = "none"
    /\ candidate_answers = <<>>
    /\ answer_scores = <<>>
    /\ final_answer = <<>>
    /\ best_idx = 0

\* a short question set, an environment that can do anything
InitRunShort ==
    /\ InitRunCommon
    /\ data \in ShortData
    /\ top_k_for_answer \in TopKsForAnswer
    /\ env = AnyEnv

\* a long question set, an index that finds nothing
InitRunLong ==
    /\ InitRunCommon
    /\ data \in LongData
    /\ top_k_for_answer = TopKForAnswer
    /\ env = QuietEnv

InitRun == InitRunShort \/ InitRunLong

\* the exception leaves run_full_dev: nothing catches it
Abort(error) ==
    /\ pc' = "aborted"
    /\ run_error' = error

\* lines 42-48: the loop head, the break, and the example without an id
LoopHead ==
    /\ mode = "run" /\ pc = "loop"
    /\ IF ex_idx >= Len(data) \/ ex_idx >= ExampleLimit
       THEN pc' = "write" /\ UNCHANGED ex_idx
       ELSE IF example_id(data[ex_idx + 1]) = 0
       THEN ex_idx' = ex_idx + 1 /\ UNCHANGED pc
       ELSE pc' = "retrieve" /\ UNCHANGED ex_idx
    /\ UNCHANGED <<mode, data, top_k_for_answer, env, traj_results, traj_pos,
                   trajectory_contexts, predictions, persisted, calls,
                   run_error>>
    /\ UNCHANGED orchVars /\ UNCHANGED voteVars /\ UNCHANGED scoreVars
    /\ UNCHANGED selectVars /\ UNCHANGED mergeVars
    /\ UNCHANGED rewriteVars /\ UNCHANGED normVars

\* lines 51-58: multi_trajectory_retrieve, then the two empty lists
Retrieve ==
    /\ mode = "run" /\ pc = "retrieve"
    /\ calls' = {Call(ex_idx, "retrieve", 1)}
    /\ \E out \in env.retrieval :
         IF out.raises
         THEN /\ Abort("retrieval")
              /\ UNCHANGED <<traj_results, traj_pos, trajectory_contexts,
                             candidate_answers>>
         ELSE /\ traj_results' = out.values
              /\ traj_pos' = 1
              /\ candidate_answers' = <<>>
              /\ trajectory_contexts' = <<>>
              /\ pc' = "trajectory"
              /\ UNCHANGED run_error
    /\ UNCHANGED <<mode, data, ex_idx, top_k_for_answer, env, predictions,
                   persisted>>
    /\ UNCHANGED <<answer_scores, final_answer, best_idx>>
    /\ UNCHANGED orchVars /\ UNCHANGED scoreVars
    /\ UNCHANGED selectVars /\ UNCHANGED mergeVars
    /\ UNCHANGED rewriteVars /\ UNCHANGED normVars

\* lines 61-83: one pass of the loop over traj_results.values()
Trajectory ==
    /\ mode = "run" /\ pc = "trajectory"
    /\ traj_pos <= Len(traj_results)
    /\ LET docs == traj_results[traj_pos]
           retrieved_ctxs == [n \in 1..Len(docs) |-> docs[n].text]
           size == Len(retrieved_ctxs)
       IN  IF retrieved_ctxs = <<>>
           THEN /\ traj_pos' = traj_pos + 1
                /\ UNCHANGED <<pc, run_error, trajectory_contexts,
                               candidate_answers, calls>>
           ELSE \E rr \in env.rerank :
                IF ~rr.up
                THEN /\ Abort("reranker unavailable")
                     /\ calls' = calls \cup {Call(ex_idx, "rerank", size)}
                     /\ UNCHANGED <<traj_pos, trajectory_contexts,
                                    candidate_answers>>
                ELSE IF reranker_score(rr.content, size).raised
                THEN /\ Abort("reranker TypeError")
                     /\ calls' = calls \cup {Call(ex_idx, "rerank", size)}
                     /\ UNCHANGED <<traj_pos, trajectory_contexts,
                                    candidate_answers>>
                ELSE LET rerank_scores ==
                             reranker_score(rr.content, size).scores
                         order == reranked_local(rerank_scores, size)
                         ranked_ctxs ==
                             [n \in 1..size |-> retrieved_ctxs[order[n]]]
                         selected ==
                             selected_ctxs(ranked_ctxs, top_k_for_answer)
                     IN  /\ trajectory_contexts' =
                                Append(trajectory_contexts, selected)
                         /\ calls' = calls \cup
                                {Call(ex_idx, "rerank", size),
                                 Call(ex_idx, "generate", Len(selected))}
                         /\ \E g \in env.generate :
                              IF ~g.up
                              THEN /\ Abort("generator unavailable")
                                   /\ UNCHANGED <<traj_pos,
                                                  candidate_answers>>
                              ELSE /\ candidate_answers' =
                                         Append(candidate_answers,
                                                generate_answer(g.content))
                                   /\ traj_pos' = traj_pos + 1
                                   /\ UNCHANGED <<pc, run_error>>
    /\ UNCHANGED <<mode, data, ex_idx, top_k_for_answer, env, traj_results,
                   predictions, persisted>>
    /\ UNCHANGED <<answer_scores, final_answer, best_idx>>
    /\ UNCHANGED orchVars /\ UNCHANGED scoreVars
    /\ UNCHANGED selectVars /\ UNCHANGED mergeVars
    /\ UNCHANGED rewriteVars /\ UNCHANGED normVars

\* lines 85-141: the confidence vector and the vote
Consensus ==
    /\ mode = "run" /\ pc = "trajectory"
    /\ traj_pos > Len(traj_results)
    /\ LET n == Len(candidate_answers)
           decide(scores) ==
               LET b == best_by_frequency(candidate_answers, scores,
                                          VotePool(candidate_answers))
               IN  /\ answer_scores' = scores
                   /\ best_idx' = b
                   /\ final_answer' =
                         IF b = 0
                         THEN IF candidate_answers # <<>>
                              THEN candidate_answers[1] ELSE <<>>
                         ELSE candidate_answers[b]
                   /\ pc' = "record"
                   /\ UNCHANGED run_error
       IN  IF ~ScorerCalled(candidate_answers)
           THEN decide(<<>>) /\ UNCHANGED calls
           ELSE /\ calls' = calls \cup {Call(ex_idx, "score", n)}
                /\ \E sc \in env.score :
                     IF ~sc.up
                     THEN /\ Abort("scorer unavailable")
                          /\ UNCHANGED <<answer_scores, best_idx,
                                         final_answer>>
                     ELSE IF score_candidate_answers(sc.content, n).raised
                     THEN /\ Abort("scorer TypeError")
                          /\ UNCHANGED <<answer_scores, best_idx,
                                         final_answer>>
                     ELSE decide(score_candidate_answers(sc.content,
                                                         n).scores)
    /\ UNCHANGED <<mode, data, ex_idx, top_k_for_answer, env, traj_results,
                   traj_pos, trajectory_contexts, predictions, persisted>>
    /\ UNCHANGED candidate_answers
    /\ UNCHANGED orchVars /\ UNCHANGED scoreVars
    /\ UNCHANGED selectVars /\ UNCHANGED mergeVars
    /\ UNCHANGED rewriteVars /\ UNCHANGED normVars

\* line 143: predictions[example_id] = final_answer; then the next example
Record ==
    /\ mode = "run" /\ pc = "record"
    /\ predictions' =
          PutItem(predictions, example_id(data[ex_idx + 1]), final_answer)
    /\ ex_idx' = ex_idx + 1
    /\ pc' = "loop"
    /\ UNCHANGED <<mode, data, top_k_for_answer, env, traj_results, traj_pos,
                   trajectory_contexts, persisted, calls, run_error>>
    /\ UNCHANGED orchVars /\ UNCHANGED voteVars /\ UNCHANGED scoreVars
    /\ UNCHANGED selectVars /\ UNCHANGED mergeVars
    /\ UNCHANGED rewriteVars /\ UNCHANGED normVars

\* lines 150-151: json.dump(predictions, f)
WriteFile ==
    /\ mode = "run" /\ pc = "write"
    /\ persisted' = <<"file", predictions>>
    /\ pc' = "done"
    /\ UNCHANGED <<mode, data, ex_idx, top_k_for_answer, env, traj_results,
                   traj_pos, trajectory_contexts, predictions, calls,
                   run_error>>
    /\ UNCHANGED orchVars /\ UNCHANGED voteVars /\ UNCHANGED scoreVars
    /\ UNCHANGED selectVars /\ UNCHANGED mergeVars
    /\ UNCHANGED rewriteVars /\ UNCHANGED normVars

IdleRun ==
    /\ data = <<>>
    /\ ex_idx = 0
    /\ top_k_for_answer = TopKForAnswer
    /\ env = QuietEnv
    /\ traj_results = <<>>
    /\ traj_pos = 1
    /\ trajectory_contexts = <<>>
    /\ predictions = <<>>
    /\ persisted = NotPersisted
    /\ calls = {}
    /\ run_error = "none"

-----------------------------------------------------------------------------
(* The context selection of one trajectory (predict_full.py 68-78) and the *)
(* merge of the selected contexts across trajectories (85-92)              *)

\* longest list of retrieved passages tried
MaxPassages == 3
\* longest list of selected contexts of one trajectory tried
MaxSelected == 2
\* largest number of trajectories that contributed contexts
MaxCtxLists == 3

\* the passage texts tried: equal texts at different positions happen
CtxTexts == {"p", "q"}

\* lines 71-72 and 77-78: the passages in the order of their scores, cut
select_contexts(ctxs, scores, top_k) ==
    LET order == reranked_local(scores, Len(ctxs))
        ranked_ctxs == [n \in 1..Len(ctxs) |-> ctxs[order[n]]]
    IN  selected_ctxs(ranked_ctxs, top_k)

\* mutant of MergeCtxList: the test on seen is forgotten
RECURSIVE MergeCtxListKeepAll(_, _)
MergeCtxListKeepAll(acc, ctx_list) ==
    IF ctx_list = <<>> THEN acc
    ELSE MergeCtxListKeepAll(
             [seen |-> acc.seen \cup {Head(ctx_list)},
              merged |-> Append(acc.merged, Head(ctx_list))],
             Tail(ctx_list))

\* lines 89-92: the inner loop, for ctx in ctx_list, on seen and
\* merged_contexts
RECURSIVE MergeCtxList(_, _)
MergeCtxList(acc, ctx_list) ==
    IF ctx_list = <<>> THEN acc
    ELSE MergeCtxList(
             IF Head(ctx_list) \notin acc.seen
             THEN [seen |-> acc.seen \cup {Head(ctx_list)},
                   merged |-> Append(acc.merged, Head(ctx_list))]
             ELSE acc,
             Tail(ctx_list))

\* lines 86-92: the outer loop, for ctx_list in trajectory_contexts
RECURSIVE MergeCtxLists(_, _)
MergeCtxLists(acc, lists) ==
    IF lists = <<>> THEN acc
    ELSE MergeCtxLists(MergeCtxList(acc, Head(lists)), Tail(lists))

\* lines 86-92: merged_contexts of trajectory_contexts
merge_contexts(lists) ==
    MergeCtxLists([seen |-> {}, merged |-> <<>>], lists).merged

InitSelect ==
    /\ mode = "select"
    /\ pc = "select"
    /\ sel_ctxs \in BoundedSeq(CtxTexts, MaxPassages)
    /\ sel_scores \in [1..Len(sel_ctxs) -> Confs]
    /\ sel_top_k \in 0..(MaxPassages + 1)
    /\ sel_out = <<>>
    /\ ctx_lists = <<>>
    /\ merged_contexts = <<>>

\* lines 71-78 for one trajectory
Select ==
    /\ mode = "select" /\ pc = "select"
    /\ sel_out' = select_contexts(sel_ctxs, sel_scores, sel_top_k)
    /\ pc' = "selected"
    /\ UNCHANGED <<mode, sel_ctxs, sel_scores, sel_top_k, ctx_lists,
                   merged_contexts>>
    /\ UNCHANGED orchVars /\ UNCHANGED voteVars /\ UNCHANGED scoreVars
    /\ UNCHANGED mergeVars /\ UNCHANGED rewriteVars /\ UNCHANGED normVars
    /\ UNCHANGED runVars

InitContexts ==
    /\ mode = "contexts"
    /\ pc = "merge"
    /\ ctx_lists \in BoundedSeq(BoundedSeq(CtxTexts, MaxSelected), MaxCtxLists)
    /\ merged_contexts = <<>>
    /\ sel_ctxs = <<>>
    /\ sel_scores = <<>>
    /\ sel_top_k = TopKForAnswer
    /\ sel_out = <<>>

\* lines 85-92
MergeContexts ==
    /\ mode = "contexts" /\ pc = "merge"
    /\ merged_contexts' = merge_contexts(ctx_lists)
    /\ pc' = "contexts merged"
    /\ UNCHANGED <<mode, sel_ctxs, sel_scores, sel_top_k, sel_out, ctx_lists>>
    /\ UNCHANGED orchVars /\ UNCHANGED voteVars /\ UNCHANGED scoreVars
    /\ UNCHANGED mergeVars /\ UNCHANGED rewriteVars /\ UNCHANGED normVars
    /\ UNCHANGED runVars

IdleSelect ==
    /\ sel_ctxs = <<>>
    /\ sel_scores = <<>>
    /\ sel_top_k = TopKForAnswer
    /\ sel_out = <<>>
    /\ ctx_lists = <<>>
    /\ merged_contexts = <<>>

IdlePipeline == IdleRewrite /\ IdleNorm /\ IdleRun /\ IdleSelect

-----------------------------------------------------------------------------
(* Specifications                                                          *)

IdleCaller ==
    /\ question = <<>>
    /\ trajectories = [t \in TrajSet |-> <<>>]
    /\ max_workers = 1
    /\ subIdx = 1
    /\ futures = <<>>
    /\ task = [t \in TrajSet |-> "none"]
    /\ taskRes = [t \in TrajSet |-> NoResult]
    /\ joinIdx = 1
    /\ results = <<>>
    /\ exc = "none"

IdleOrch ==
    /\ question = <<>>
    /\ trajectories = [t \in TrajSet |-> <<>>]
    /\ index = [q \in NonBlank |-> [raises |-> FALSE, hits |-> <<>>]]
    /\ top_k_per_query = TopKPerQuery
    /\ max_workers = 1
    /\ subIdx = 1
    /\ futures = <<>>
    /\ task = [t \in TrajSet |-> "none"]
    /\ taskRes = [t \in TrajSet |-> NoResult]
    /\ joinIdx = 1
    /\ results = <<>>
    /\ exc = "none"

IdleVote ==
    /\ candidate_answers = <<>>
    /\ answer_scores = <<>>
    /\ final_answer = <<>>
    /\ best_idx = 0

IdleMerge ==
    /\ qlist = <<>>
    /\ merged = [status |-> "ok", docs |-> <<>>]

IdleScore ==
    /\ response = <<>>
    /\ n_answers = 1
    /\ scoreOut = [raised |-> FALSE, scores |-> <<>>]

Init == InitOrch /\ IdleMerge /\ IdleVote /\ IdleScore /\ IdlePipeline

Next ==
    \/ Submit
    \/ \E t \in TrajSet : TaskStart(t)
    \/ \E t \in TrajSet : TaskFinish(t)
    \/ JoinResult
    \/ JoinEnd
    \/ ExitPool

Spec == Init /\ [][Next]_vars

\* the threads go on: the calling thread takes its next step when it can,
\* a free worker takes the oldest queued task, and a retrieval that was
\* started comes to its end, by returning or by raising
Fairness ==
    /\ WF_vars(Submit)
    /\ WF_vars(JoinResult)
    /\ WF_vars(JoinEnd)
    /\ WF_vars(ExitPool)
    /\ \A t \in TrajSet : WF_vars(TaskStart(t))
    /\ \A t \in TrajSet : WF_vars(TaskFinish(t))

\* the calls whose trajectories hold one variant at most: what the pool
\* does depends on the number of tasks, not on the length of their lists
InitLive == Init /\ \A t \in TrajSet : Len(trajectories[t]) <= 1

SpecLive == InitLive /\ [][Next]_vars /\ Fairness

InitM == InitMerge /\ IdleCaller /\ IdleVote /\ IdleScore /\ IdlePipeline

NextMerge == Merge

SpecMerge == InitM /\ [][NextMerge]_vars

InitV == InitVote /\ IdleOrch /\ IdleMerge /\ IdleScore /\ IdlePipeline

NextVote == Vote

SpecVote == InitV /\ [][NextVote]_vars

InitS == InitScore /\ IdleOrch /\ IdleMerge /\ IdleVote /\ IdlePipeline

NextScore == Score

SpecScore == InitS /\ [][NextScore]_vars

InitR ==
    InitRewrite /\ IdleOrch /\ IdleMerge /\ IdleVote /\ IdleScore /\ IdleNorm
        /\ IdleRun /\ IdleSelect

NextRewrite == Complete \/ ParseVariants

SpecRewrite == InitR /\ [][NextRewrite]_vars

InitN ==
    InitNorm /\ IdleOrch /\ IdleMerge /\ IdleVote /\ IdleScore /\ IdleRewrite
        /\ IdleRun /\ IdleSelect

NextNorm == Normalize \/ NormalizeAgain

SpecNorm == InitN /\ [][NextNorm]_vars

InitF ==
    InitRun /\ IdleOrch /\ IdleMerge /\ IdleScore /\ IdleRewrite /\ IdleNorm
        /\ IdleSelect

NextRun ==
    \/ LoopHead
    \/ Retrieve
    \/ Trajectory
    \/ Consensus
    \/ Record
    \/ WriteFile

SpecRun == InitF /\ [][NextRun]_vars

InitSel ==
    InitSelect /\ IdleOrch /\ IdleMerge /\ IdleVote /\ IdleScore
        /\ IdleRewrite /\ IdleNorm /\ IdleRun

NextSelect == Select

SpecSelect == InitSel /\ [][NextSelect]_vars

InitC ==
    InitContexts /\ IdleOrch /\ IdleMerge /\ IdleVote /\ IdleScore
        /\ IdleRewrite /\ IdleNorm /\ IdleRun

NextContexts == MergeContexts

SpecContexts == InitC /\ [][NextContexts]_vars

-----------------------------------------------------------------------------
(* Properties of the merger                                                *)

\* the hits the engine gave for variant n of qlist (none for a blank one)
HitsOfVariant(n) ==
    IF Strip(qlist[n]) = <<>> THEN <<>>
    ELSE Take(index[Strip(qlist[n])].hits, top_k_per_query)

\* no retrieval of the call raised
NoRetrievalRaises ==
    \A n \in 1..Len(qlist) :
        Strip(qlist[n]) # <<>> => ~index[Strip(qlist[n])].raises

\* the scores the retrievals of the call returned for document d
RetrievedScores(d) ==
    {HitsOfVariant(n)[k][2] : <<n, k>> \in
        {nk \in (1..Len(qlist)) \X (1..NumDocs) :
            /\ nk[2] <= Len(HitsOfVariant(nk[1]))
            /\ HitsOfVariant(nk[1])[nk[2]][1] = d}}

SetMax(S) == CHOOSE x \in S : \A y \in S : y <= x

\* record r carries document id d
HasId(r, d) == "doc_id" \in DOMAIN r /\ r["doc_id"] = d

\* C1: the docs list the merger returns holds each document id at most
\* once, and each document some non-blank variant's retrieval returned is
\* in it with the maximum score any of those retrievals gave it.
C1_MergedDocsUniqueWithMaxScore ==
    (pc = "merged" /\ NoRetrievalRaises) =>
        /\ merged.status = "ok"
        /\ \A d \in Docs :
             LET at == {n \in 1..Len(merged.docs) : HasId(merged.docs[n], d)}
             IN  /\ Cardinality(at) <= 1
                 /\ RetrievedScores(d) # {} =>
                      /\ Cardinality(at) = 1
                      /\ \A n \in at :
                           merged.docs[n]["score"] = SetMax(RetrievedScores(d))

\* C9: every record BM25Retriever.retrieve returns carries the document id
\* with text, score and metadata, so the merger's read of the id succeeds
\* and merging a non-empty retrieval result never fails.
C9_RecordsCarryDocId ==
    pc = "merged" =>
        /\ \A n \in 1..Len(qlist) :
             (Strip(qlist[n]) # <<>> /\ ~index[Strip(qlist[n])].raises) =>
                 LET rs == retrieve(index, Strip(qlist[n]),
                                    top_k_per_query).results
                 IN  \A k \in 1..Len(rs) :
                        {"doc_id", "text", "score", "meta"} \subseteq DOMAIN rs[k]
        /\ merged.status # "KeyError"

\* the records the retrievals of the call returned for document d with
\* score sc, whole
RecordsOf(d, sc) ==
    {retrieve(index, Strip(qlist[nk[1]]), top_k_per_query).results[nk[2]] :
        nk \in {nk \in (1..Len(qlist)) \X (1..NumDocs) :
                  /\ nk[2] <= Len(HitsOfVariant(nk[1]))
                  /\ HitsOfVariant(nk[1])[nk[2]] = <<d, sc>>}}

\* C21: for a document several variants of the trajectory returned, the
\* record the merger keeps is, whole, a record of a retrieval that gave the
\* document its maximum score; nothing of a lower-scoring duplicate is kept.
C21_KeptRecordIsTheMaximumsRecord ==
    (pc = "merged" /\ NoRetrievalRaises) =>
        /\ merged.status = "ok"
        /\ \A d \in Docs :
             RetrievedScores(d) # {} =>
                 \E n \in 1..Len(merged.docs) :
                    merged.docs[n] \in RecordsOf(d, SetMax(RetrievedScores(d)))

\* C22: the merger returns its docs list, and the list is in non-increasing
\* order of score, whatever the order of the variants.
C22_DocsSortedByScore ==
    (pc = "merged" /\ NoRetrievalRaises) =>
        /\ merged.status = "ok"
        /\ \A i, j \in 1..Len(merged.docs) :
             i < j => merged.docs[i]["score"] >= merged.docs[j]["score"]

-----------------------------------------------------------------------------
(* Properties of the orchestrator                                          *)

Dispatched == {futures[n] : n \in 1..Len(futures)}
Succeeded == {t \in TrajSet : task[t] = "done"}
Failed == {t \in TrajSet : task[t] = "failed"}
Finished == pc \in {"returned", "raised"}
ResultKeys == {results[n][1] : n \in 1..Len(results)}

\* C3: when one trajectory's task fails and a sibling succeeds, the call
\* still returns a map, without the failed trajectory and with every
\* successful one and its merged docs.
C3_FailureLeavesSiblingsInMap ==
    (Finished /\ Failed # {} /\ Succeeded # {}) =>
        /\ pc = "returned"
        /\ ResultKeys = Succeeded
        /\ \A n \in 1..Len(results) :
             results[n][2].docs = taskRes[results[n][1]].docs

\* C8: when every dispatched task fails the call fails with
\* NoTrajectoriesSucceeded, and when one succeeded it returns a non-empty map.
C8_AllFailedIsNoTrajectoriesSucceeded ==
    Finished =>
        /\ (Dispatched # {} /\ Dispatched \subseteq Failed) =>
               (pc = "raised" /\ exc = "NoTrajectoriesSucceeded")
        /\ Succeeded # {} => (pc = "returned" /\ results # <<>>)

NonEmptyTraj == {t \in TrajSet : trajectories[t] # <<>>}

\* the search engine raises for no query of the index
NoEngineRaises == \A q \in DOMAIN index : ~index[q].raises

\* C11: a trajectory whose variant list is empty is never dispatched and is
\* not in the result map; the other trajectories are all dispatched, and
\* when no retrieval of the engine fails the call raises nothing and
\* returns the map of exactly those other trajectories.
C11_EmptyTrajectoryAbsentOthersReturned ==
    /\ \A t \in TrajSet \ NonEmptyTraj :
         task[t] = "none" /\ t \notin Dispatched /\ t \notin ResultKeys
    /\ pc # "submit" => Dispatched = NonEmptyTraj
    /\ (Finished /\ NoEngineRaises /\ NonEmptyTraj # TrajSet) =>
         (pc = "returned" /\ ResultKeys = NonEmptyTraj)

\* C19: a failed trajectory task cancels no sibling (every dispatched task
\* has run to its end when the call is over) and the failure stays that
\* trajectory's own: the call itself does not fail.
C19_FailureCancelsNothingAndStaysLocal ==
    (Finished /\ Failed # {}) =>
        /\ \A t \in Dispatched : task[t] \in {"done", "failed"}
        /\ pc = "returned"
        /\ exc = "none"

\* the half of C19 on cancellation alone: when the call is over after a
\* failure, every dispatched task has run to its end
NoSiblingCancelled ==
    (Finished /\ Failed # {}) =>
        \A t \in Dispatched : task[t] \in {"done", "failed"}

\* every variant of trajectory t is empty after stripping
AllVariantsBlank(t) ==
    \A n \in 1..Len(trajectories[t]) : Strip(trajectories[t][n]) = <<>>

\* C23: a dispatched trajectory whose variants are all empty after
\* stripping causes no retrieval, and its result has an empty docs list
\* and an empty queries list.
C23_AllBlankGivesEmptyResult ==
    /\ \A t \in TrajSet :
         (AllVariantsBlank(t) /\ task[t] \in {"done", "failed"}) =>
             taskRes[t] = NoResult
    /\ pc = "returned" =>
         \A n \in 1..Len(results) :
            AllVariantsBlank(results[n][1]) =>
                /\ results[n][2].docs = <<>>
                /\ results[n][2].queries = <<>>

\* the halves of C23 that hold: no retrieval for a blank variant (the task
\* of an all-blank trajectory succeeds with nothing), and empty docs
AllBlankGivesEmptyDocs ==
    /\ \A t \in TrajSet :
         (AllVariantsBlank(t) /\ task[t] \in {"done", "failed"}) =>
             taskRes[t] = NoResult
    /\ pc = "returned" =>
         \A n \in 1..Len(results) :
            AllVariantsBlank(results[n][1]) => results[n][2].docs = <<>>

\* the generation order of the trajectories
GenerationOrder == <<"original", "rewrite", "decomp", "entity">>

\* the items of the result map as the inputs alone determine them: one per
\* trajectory of names with a non-empty variant list, in the order of names
RECURSIVE ResultOfInputs(_)
ResultOfInputs(names) ==
    IF names = <<>> THEN <<>>
    ELSE LET name == Head(names)
             docs == RetrieveForQueries(index, trajectories[name],
                                        top_k_per_query).docs
         IN  (IF trajectories[name] = <<>> THEN <<>>
              ELSE <<<<name, [queries |-> trajectories[name],
                              docs |-> docs]>>>>)
                 \o ResultOfInputs(Tail(names))

\* C26: the result map returned (keys, key order, docs) is a function of the
\* question's trajectories and the index alone, whatever the interleaving
\* of the tasks and the pool size: its keys come in the generation order,
\* and the outcome of a task is that of its own merger call.
C26_ResultIndependentOfInterleaving ==
    /\ \A t \in TrajSet :
         task[t] \in {"done", "failed"} =>
             taskRes[t] = RetrieveForQueries(index, trajectories[t],
                                             top_k_per_query)
    /\ pc = "returned" => results = ResultOfInputs(GenerationOrder)

\* a map of three trajectories or more returned by a pool of two workers,
\* whose tasks ran side by side and ended in either order
C26_Witness ==
    /\ pc = "returned"
    /\ max_workers = 2
    /\ Len(results) >= 3
    /\ results[1][1] = "original"
    /\ results[Len(results)][1] = "entity"

\* C30: when every retrieval terminates, the call terminates, whatever the
\* pool size and the number of dispatched trajectories: it returns or
\* raises, and every task that was queued is started and runs to its end.
C30_CallTerminates ==
    /\ <>Finished
    /\ \A t \in TrajSet :
         (task[t] = "queued") ~> (task[t] \in {"done", "failed"})

\* the call is over with four trajectories dispatched on two workers
C30_Witness ==
    /\ Finished
    /\ max_workers = 2
    /\ Cardinality(Dispatched) = 4
    /\ \A t \in Dispatched : task[t] \in {"done", "failed"}

-----------------------------------------------------------------------------
(* Properties of the vote                                                  *)

Voted == mode = "vote" /\ pc = "voted"

CandIdx == 1..Len(candidate_answers)

\* the key of every candidate: its text trimmed and lowercased
Keys == [i \in CandIdx |-> Lower(Strip(candidate_answers[i]))]

\* with keys k, candidate i is a real answer: not empty, not the sentinel
IsReal(k, i) == k[i] # <<>> /\ k[i] # FallbackKey

\* the working pool as a set of indices
PoolSet(k) ==
    IF \E i \in CandIdx : IsReal(k, i) THEN {i \in CandIdx : IsReal(k, i)}
    ELSE CandIdx

\* the members of pool P that share the key of candidate i
GroupOf(k, P, i) == {j \in P : k[j] = k[i]}

BestConf(G) == SetMax({answer_scores[j] : j \in G})

Penalty(k, i) == IF IsReal(k, i) THEN 0 ELSE -1

\* the group of i has a greater (penalty, count, best confidence) than j's
GroupBeats(k, P, i, j) ==
    LET Gi == GroupOf(k, P, i)
        Gj == GroupOf(k, P, j)
    IN  \/ Penalty(k, i) > Penalty(k, j)
        \/ /\ Penalty(k, i) = Penalty(k, j)
           /\ Cardinality(Gi) > Cardinality(Gj)
        \/ /\ Penalty(k, i) = Penalty(k, j)
           /\ Cardinality(Gi) = Cardinality(Gj)
           /\ BestConf(Gi) > BestConf(Gj)

\* C2 as stated: the vote never returns the fallback sentinel when some
\* candidate is not the fallback sentinel.
C2_NoFallbackIfSomeNotFallback ==
    Voted =>
        LET k == Keys IN
        (\E i \in CandIdx : k[i] # FallbackKey) =>
            Lower(Strip(final_answer)) # FallbackKey

\* C2 amended: the vote never returns the fallback sentinel when some
\* candidate is non-empty after trimming and not the fallback sentinel.
C2_NoFallbackIfSomeReal ==
    Voted =>
        LET k == Keys IN
        (\E i \in CandIdx : IsReal(k, i)) =>
            Lower(Strip(final_answer)) # FallbackKey

\* C2 happens: the fallback sentinel has the majority and the one real
\* answer is returned
C2_Witness ==
    /\ Voted
    /\ LET k == Keys IN
         /\ Cardinality({i \in CandIdx : k[i] = FallbackKey}) >= 2
         /\ best_idx \in CandIdx /\ IsReal(k, best_idx)
         /\ final_answer = candidate_answers[best_idx]

\* C4: the vote returns a member of the pool's group with the
\* lexicographically greatest (fallback_penalty, count, best_confidence):
\* no group of the pool has a greater tuple than the chosen one.
C4_GreatestTupleWins ==
    (Voted /\ candidate_answers # <<>>) =>
        LET k == Keys
            P == PoolSet(k)
        IN  /\ best_idx \in P
            /\ \A j \in P : ~GroupBeats(k, P, j, best_idx)

\* C4 happens: a group of two wins against a single answer of higher
\* confidence
C4_Witness ==
    /\ Voted
    /\ LET k == Keys
           P == PoolSet(k)
       IN  /\ best_idx \in P
           /\ Cardinality(GroupOf(k, P, best_idx)) = 2
           /\ \E j \in P :
                /\ Cardinality(GroupOf(k, P, j)) = 1
                /\ Penalty(k, j) = Penalty(k, best_idx)
                /\ answer_scores[j] > BestConf(GroupOf(k, P, best_idx))

\* C7: within the winning group the vote returns the member of highest
\* confidence, and of several such members the one of smallest index.
C7_HighestConfidenceEarliestIndex ==
    (Voted /\ candidate_answers # <<>>) =>
        LET k == Keys
            P == PoolSet(k)
        IN  /\ best_idx \in P
            /\ final_answer = candidate_answers[best_idx]
            /\ \A j \in GroupOf(k, P, best_idx) :
                 /\ answer_scores[j] <= answer_scores[best_idx]
                 /\ answer_scores[j] = answer_scores[best_idx] => best_idx <= j

\* C7 happens: the winning group has an earlier member of lower confidence
\* and a later member of the same confidence as the one returned
C7_Witness ==
    /\ Voted
    /\ LET k == Keys
           P == PoolSet(k)
       IN  /\ best_idx \in P
           /\ \E j \in GroupOf(k, P, best_idx) :
                j < best_idx /\ answer_scores[j] < answer_scores[best_idx]
           /\ \E j \in GroupOf(k, P, best_idx) :
                j > best_idx /\ answer_scores[j] = answer_scores[best_idx]

\* C17: when every candidate normalizes to the fallback sentinel or to the
\* empty string, the pool is the full index set (the winner is a candidate
\* that no group of the full set beats) and the vote returns that
\* candidate; when all candidates are the fallback sentinel, so is the
\* final answer.
C17_AllFallbackPoolIsFullSet ==
    (Voted /\ candidate_answers # <<>>) =>
        LET k == Keys IN
        (\A i \in CandIdx : ~IsReal(k, i)) =>
            /\ PoolSet(k) = CandIdx
            /\ best_idx \in CandIdx
            /\ final_answer = candidate_answers[best_idx]
            /\ \A j \in CandIdx : ~GroupBeats(k, CandIdx, j, best_idx)
            /\ (\A i \in CandIdx : k[i] = FallbackKey) =>
                   Lower(Strip(final_answer)) = FallbackKey

\* C17 happens: two candidates, both the fallback sentinel, and the vote
\* returned the sentinel
C17_Witness ==
    /\ Voted
    /\ Len(candidate_answers) = 2
    /\ \A i \in CandIdx : candidate_answers[i] = Sentinel
    /\ final_answer = Sentinel

\* the smallest member of a non-empty set of indices
FirstMember(G) == CHOOSE i \in G : \A j \in G : i <= j

\* the groups of i and j differ and neither has the greater tuple
GroupsTied(k, P, i, j) ==
    /\ k[i] # k[j]
    /\ ~GroupBeats(k, P, i, j)
    /\ ~GroupBeats(k, P, j, i)

\* C27: of several groups of the pool with the same (fallback_penalty,
\* count, best confidence) the vote selects the one whose first member has
\* the smallest candidate index.
C27_TiedGroupsEarliestFirstMemberWins ==
    (Voted /\ candidate_answers # <<>>) =>
        LET k == Keys
            P == PoolSet(k)
        IN  /\ best_idx \in P
            /\ \A j \in P :
                 GroupsTied(k, P, best_idx, j) =>
                     FirstMember(GroupOf(k, P, best_idx))
                         < FirstMember(GroupOf(k, P, j))

\* C27 happens: the first candidate is empty and out of the pool, the two
\* others are different answers of one confidence, and the earlier is chosen
C27_Witness ==
    /\ Voted
    /\ Len(candidate_answers) = 3
    /\ LET k == Keys
           P == PoolSet(k)
       IN  /\ P = {2, 3}
           /\ GroupsTied(k, P, 2, 3)
           /\ answer_scores[2] > 0
           /\ best_idx = 2

\* C29: whenever the candidate list is not empty, the final answer is the
\* text as it was generated of a candidate of the working pool, whose index
\* is an index of the candidate list and of the confidence vector.
C29_FinalAnswerIsPoolCandidateVerbatim ==
    (Voted /\ candidate_answers # <<>>) =>
        /\ best_idx \in PoolSet(Keys)
        /\ best_idx \in 1..Len(candidate_answers)
        /\ best_idx \in 1..Len(answer_scores)
        /\ final_answer = candidate_answers[best_idx]

\* C29 happens: the answer returned is not the first candidate and has a
\* capital letter that its key has not
C29_Witness ==
    /\ Voted
    /\ best_idx > 1
    /\ best_idx \in PoolSet(Keys)
    /\ final_answer = candidate_answers[best_idx]
    /\ final_answer # Keys[best_idx]
    /\ Cardinality(PoolSet(Keys)) < Len(candidate_answers)

-----------------------------------------------------------------------------
(* Properties of the answer scorer                                         *)

\* the response holds an object naming answer index i (counted from 0)
Mentions(i) ==
    \E p \in 1..Len(response) :
        response[p].t = "obj" /\ response[p].index = i

\* C6: whatever the response text, score_candidate_answers returns without
\* raising one value per candidate, each in [0.0, 1.0], and 0.0 for every
\* candidate the response gives no score for.
C6_ScoresTotalAndInRange ==
    (mode = "score" /\ pc = "scored") =>
        /\ ~scoreOut.raised
        /\ Len(scoreOut.scores) = n_answers
        /\ \A i \in 1..Len(scoreOut.scores) :
             /\ scoreOut.scores[i] \in 0..ConfLevels
             /\ ~Mentions(i - 1) => scoreOut.scores[i] = 0

\* the position of the "]" that closes the "[" open at depth levels before
\* position p, 0 if there is none
RECURSIVE MatchingClose(_, _, _)
MatchingClose(ts, p, depth) ==
    IF p > Len(ts) THEN 0
    ELSE IF ts[p].t = "lb" THEN MatchingClose(ts, p + 1, depth + 1)
    ELSE IF ts[p].t = "rb"
    THEN IF depth = 1 THEN p ELSE MatchingClose(ts, p + 1, depth - 1)
    ELSE MatchingClose(ts, p + 1, depth)

\* the first [...] span of the response: from the first "[" to its "]"
FirstSpan ==
    LET start == Find(response, "lb", 1)
        close == IF start = 0 THEN 0 ELSE MatchingClose(response, start + 1, 1)
    IN  IF close = 0 THEN <<>> ELSE SubSeq(response, start, close)

\* ts is a score array: an array of objects and nothing else
IsScoreArray(ts) ==
    /\ json_loads(ts).ok
    /\ json_loads(ts).val.kind = "array"
    /\ \A n \in 1..Len(json_loads(ts).val.items) :
         json_loads(ts).val.items[n].kind = "obj"

\* C28: when the response is not JSON as a whole and its first [...] span
\* is a score array, the scores returned are those of that array, whatever
\* follows the span.
C28_FirstBracketSpanIsParsed ==
    (mode = "score" /\ pc = "scored" /\ ~json_loads(response).ok
        /\ IsScoreArray(FirstSpan)) =>
        /\ ~scoreOut.raised
        /\ scoreOut.scores =
              ApplyEntries(json_loads(FirstSpan).val.items, n_answers,
                           [i \in 1..n_answers |-> 0])

-----------------------------------------------------------------------------
(* Properties of the query-variant generator                               *)

\* C12: whatever the completion text, the list a method of the generator
\* returns holds at most n strings, each of them non-empty and without
\* leading or trailing whitespace.
C12_VariantsCappedNonEmptyStripped ==
    (mode = "rewriter" /\ pc = "parsed") =>
        /\ Len(variants) <= n_max
        /\ \A i \in 1..Len(variants) :
             /\ variants[i] # <<>>
             /\ Strip(variants[i]) = variants[i]

\* the halves of C12 that hold: the cap and the stripping
VariantsCappedAndStripped ==
    (mode = "rewriter" /\ pc = "parsed") =>
        /\ Len(variants) <= n_max
        /\ \A i \in 1..Len(variants) : Strip(variants[i]) = variants[i]

-----------------------------------------------------------------------------
(* Properties of the answer post-processing                                *)

\* the trimmed, lowercased answer begins with the letters of w
BeginsWith(w) ==
    LET low == Lower(Strip(answer))
    IN  /\ Len(low) >= Len(w)
        /\ \A i \in 1..Len(w) : low[i] = w[i]

\* C20: _normalize_yes_no returns exactly "yes" when the trimmed, lowercased
\* answer starts with "yes", exactly "no" when it starts with "no", and the
\* trimmed answer with its case kept (the fallback sentinel too) otherwise;
\* applied to its own result it returns that result.
C20_YesNoNormalizedOnceAndForAll ==
    /\ (mode = "normalize" /\ pc \in {"normalized", "renormalized"}) =>
         /\ BeginsWith(YesText) => normalized = YesText
         /\ BeginsWith(NoText) => normalized = NoText
         /\ (~BeginsWith(YesText) /\ ~BeginsWith(NoText)) =>
                normalized = Strip(answer)
    /\ (mode = "normalize" /\ pc = "renormalized") =>
         renormalized = normalized

\* C20 happens: an answer with a leading blank and a capital letter became
\* "yes", and the second application was made
C20_Witness ==
    /\ mode = "normalize" /\ pc = "renormalized"
    /\ normalized = YesText
    /\ Strip(answer) # answer
    /\ Lower(answer) # answer

-----------------------------------------------------------------------------
(* Properties of the run over the question set                             *)

Running_full_dev == mode = "run"

\* the ids of the examples of d that have one
IdsOf(d) == {example_id(d[p]) : p \in 1..Len(d)} \ {0}

\* the keys of a dict kept as its items, and the value of key k
KeysOf(d) == {d[n][1] : n \in 1..Len(d)}
ValueOf(d, k) == d[KeyPos(d, k, 1)][2]

\* the passages of the trajectory at hand, in retrieval order
RetrievedHere ==
    [n \in 1..Len(traj_results[traj_pos]) |-> traj_results[traj_pos][n].text]

\* C13: when the reranker's call of the service fails, the question does
\* not fail: the trajectory's selected contexts are the first top_k
\* passages in retrieval order and the run goes on.
C13_RerankerDownKeepsRetrievalOrder ==
    (Running_full_dev /\ run_error = "reranker unavailable") =>
        /\ pc # "aborted"
        /\ trajectory_contexts # <<>>
        /\ trajectory_contexts[Len(trajectory_contexts)] =
               Take(RetrievedHere, top_k_for_answer)

\* C14: the generator is never called with an empty context list, no
\* empty context list is kept, and between two trajectories there is one
\* candidate for each context list kept.
C14_GenerationOnlyWithContexts ==
    Running_full_dev =>
        /\ \A c \in calls : c.stage = "generate" => c.n > 0
        /\ \A i \in 1..Len(trajectory_contexts) :
             trajectory_contexts[i] # <<>>
        /\ pc \in {"trajectory", "record"} =>
             Len(candidate_answers) = Len(trajectory_contexts)

\* the half of C14 that holds for every top_k_for_answer: a trajectory
\* without retrieved passages is passed over
NoCallWithoutRetrievedPassages ==
    Running_full_dev =>
        /\ \A c \in calls : c.stage = "rerank" => c.n > 0
        /\ pc \in {"trajectory", "record"} =>
             /\ Len(candidate_answers) = Len(trajectory_contexts)
             /\ Len(candidate_answers) <=
                    Cardinality({n \in 1..Len(traj_results) :
                                    traj_results[n] # <<>>})

\* C15: a failure while a question is processed does not abort the run:
\* the run ends with the file written, and the failure leaves an empty
\* prediction.
C15_FailureDoesNotAbortRun ==
    Running_full_dev =>
        /\ pc # "aborted"
        /\ run_error # "none" =>
             \E n \in 1..Len(predictions) : predictions[n][2] = <<>>
        /\ pc = "done" => persisted = <<"file", predictions>>

\* the part of C15 that holds: a question without usable contexts gets the
\* empty prediction and the run goes on
NoContextsGivesEmptyPrediction ==
    (Running_full_dev /\ pc = "record" /\ trajectory_contexts = <<>>) =>
        (final_answer = <<>> /\ run_error = "none")

\* C16: after the run the file holds exactly one entry for every example
\* with an id (its final answer when it was recorded) and none for an
\* example without one, for which no call was made.
C16_OneEntryPerExampleWithId ==
    Running_full_dev =>
        /\ pc = "done" =>
             /\ persisted[1] = "file"
             /\ KeysOf(persisted[2]) = IdsOf(data)
             /\ Len(persisted[2]) = Cardinality(IdsOf(data))
        /\ \A c \in calls : example_id(data[c.idx + 1]) # 0
        /\ (pc = "loop" /\ ex_idx > 0 /\ example_id(data[ex_idx]) # 0) =>
             ValueOf(predictions, example_id(data[ex_idx])) = final_answer

\* C16 within the first ExampleLimit examples
OneEntryPerExampleWithIdUpToLimit ==
    (Running_full_dev /\ pc = "done") =>
        KeysOf(persisted[2]) = IdsOf(Take(data, ExampleLimit))

\* C18: with zero candidates the scorer's service is not called, the
\* confidence vector is empty, the decision (and the prediction recorded)
\* is the empty string, and the scoring raises nothing.
C18_NoCandidatesNoScoringEmptyDecision ==
    Running_full_dev =>
        /\ \A c \in calls : c.stage = "score" => c.n > 0
        /\ (pc = "record" /\ candidate_answers = <<>>) =>
             /\ answer_scores = <<>>
             /\ final_answer = <<>>
             /\ \A c \in calls : ~(c.idx = ex_idx /\ c.stage = "score")
        /\ (pc = "aborted" /\ candidate_answers = <<>>) =>
             run_error \notin {"scorer unavailable", "scorer TypeError"}
        /\ (/\ pc = "loop" /\ ex_idx > 0
            /\ example_id(data[ex_idx]) # 0
            /\ candidate_answers = <<>>) =>
             ValueOf(predictions, example_id(data[ex_idx])) = <<>>

\* C18 happens: a question whose trajectories all came back without
\* passages was decided with no candidate, and its empty prediction is in
\* the dict
C18_Witness ==
    /\ Running_full_dev /\ pc = "loop" /\ ex_idx > 0
    /\ example_id(data[ex_idx]) # 0
    /\ Len(traj_results) >= 2
    /\ candidate_answers = <<>>
    /\ ValueOf(predictions, example_id(data[ex_idx])) = <<>>
    /\ \A c \in calls : ~(c.idx = ex_idx - 1 /\ c.stage = "score")

-----------------------------------------------------------------------------
(* Properties of the context merge and of the context selection           *)

ContextsMerged == mode = "contexts" /\ pc = "contexts merged"

\* the concatenation of the trajectories' selected-context lists
RECURSIVE Concatenation(_)
Concatenation(lists) ==
    IF lists = <<>> THEN <<>>
    ELSE Head(lists) \o Concatenation(Tail(lists))

\* the position of the first occurrence of x in s (x occurs in s)
FirstOccurrence(s, x) ==
    CHOOSE n \in 1..Len(s) : s[n] = x /\ \A m \in 1..(n - 1) : s[m] # x

\* C24: the merged context list holds every text of some trajectory's
\* selected contexts exactly once and nothing else, in the order of the
\* texts' first occurrences in the concatenation of the lists.
C24_MergedContextsFirstOccurrenceOrder ==
    ContextsMerged =>
        LET all == Concatenation(ctx_lists)
            occurs == {all[n] : n \in 1..Len(all)}
        IN  /\ \A x \in occurs :
                 Cardinality({n \in 1..Len(merged_contexts) :
                                 merged_contexts[n] = x}) = 1
            /\ \A n \in 1..Len(merged_contexts) : merged_contexts[n] \in occurs
            /\ \A i, j \in 1..Len(merged_contexts) :
                 i < j => FirstOccurrence(all, merged_contexts[i])
                              < FirstOccurrence(all, merged_contexts[j])

\* a text selected by two trajectories, after another text, was merged
C24_Witness ==
    /\ ContextsMerged
    /\ Len(merged_contexts) = 2
    /\ \E i, j \in 1..Len(ctx_lists) :
         /\ i < j
         /\ \E a \in 1..Len(ctx_lists[i]), b \in 1..Len(ctx_lists[j]) :
              /\ a > 1
              /\ ctx_lists[i][a] = ctx_lists[j][b]
              /\ ctx_lists[i][a] = merged_contexts[2]

Selected == mode = "select" /\ pc = "selected"

\* C25: the selection returns min(top_k, n) passages, taken from the input
\* at distinct positions, in non-increasing order of their scores, and no
\* passage left out has a higher score than a passage returned.
C25_SelectionIsTopKByScore ==
    Selected =>
        LET n == Len(sel_ctxs)
            k == Min(sel_top_k, n)
        IN  /\ Len(sel_out) = k
            /\ \E p \in [1..k -> 1..n] :
                 /\ \A i, j \in 1..k : i # j => p[i] # p[j]
                 /\ \A j \in 1..k : sel_out[j] = sel_ctxs[p[j]]
                 /\ \A i, j \in 1..k :
                      i < j => sel_scores[p[i]] >= sel_scores[p[j]]
                 /\ \A q \in 1..n : \A j \in 1..k :
                      (\A i \in 1..k : p[i] # q) =>
                          sel_scores[q] <= sel_scores[p[j]]

\* a selection that cut the list and moved a later passage to the front
C25_Witness ==
    /\ Selected
    /\ sel_top_k = 2
    /\ Len(sel_ctxs) = 3
    /\ sel_scores[3] > sel_scores[1]
    /\ sel_scores[1] > sel_scores[2]
    /\ sel_out = <<sel_ctxs[3], sel_ctxs[1]>>
    /\ sel_ctxs[3] # sel_ctxs[1]

=============================================================================
